---- MODULE Spec2Model ----
(***************************************************************************)
(* A model of editorconfig-cli (src/index.js): option parsing, settings    *)
(* resolution, input expansion (literal paths, globs, JSON manifest),      *)
(* exclusion filtering, validation dispatch, report printing and the exit  *)
(* code of the process.                                                    *)
(*                                                                         *)
(* Paths and regular expressions are sequences of tokens ("lib", "/",      *)
(* "a", ".js"); a severity type is a sequence of characters.  The empty    *)
(* sequence stands for JavaScript's null / undefined.                      *)
(***************************************************************************)
EXTENDS FiniteSets, Integers, Sequences, TLC

VARIABLES
    fs,             \* the file system: absolute path -> "file" | "dir"
    manifest,       \* what reading/parsing the JSON manifest yields
    argv,           \* the command line: [editorconfig, json, exclude, args]
    pc,             \* position of the process: parse, settings, main, loop, exited
    program,        \* commander's parsed options: [editorconfig, json, exclude, args]
    settings,       \* the settings record (lines 74-79)
    excludes,       \* the compiled exclusion patterns (lines 129-131)
    exitCode,       \* the module-level exit flag (line 84)
    pendRead,       \* the readFile callback is outstanding
    pendGlob,       \* outstanding glob promises, per pattern
    pendLstat,      \* outstanding lstat callbacks, per path
    procExit,       \* exit code of the process, -1 while it runs
    term,           \* how the process ended: fatal, uncaught, help, natural
    validateCalls,  \* calls of validate(), per path
    globCalls,      \* calls of glob(), per pattern
    tested,         \* paths tested against the exclusion patterns
    globReturned,   \* paths the glob engine has returned
    lstatDone,      \* paths whose lstat callback has run without error
    validatorCalls, \* paths the external validator was invoked on
    printedTypes,   \* severity types of the entries printed
    printedCount,   \* number of entries printed
    console         \* messages logged: nothing, help, jsonError, loaded

vars == <<fs, manifest, argv, pc, program, settings, excludes, exitCode,
          pendRead, pendGlob, pendLstat, procExit, term, validateCalls,
          globCalls, tested, globReturned, lstatDone, validatorCalls,
          printedTypes, printedCount, console>>

envVars == <<fs, manifest, argv>>
obsVars == <<validateCalls, globCalls, tested, globReturned, lstatDone,
             validatorCalls, printedTypes, printedCount, console>>

Null == <<>>

-----------------------------------------------------------------------------
(* Bounds of the model *)

MaxArgs == 2
MaxPatterns == 2

-----------------------------------------------------------------------------
(* Program constants *)

DEFAULT_EDITORCONFIG_NAME == <<".editorconfig">>
DEFAULT_JSON_FILENAME == <<"package", ".json">>
\* `/normalize.*`: the trailing .* also matches the empty string, so the pattern
\* is found wherever "/normalize" is.
DEFAULT_EXCLUDE == << <<"/", "normalize">> >>
\* types.WARNING of lintspaces
WARNING == <<"w", "a", "r", "n", "i", "n", "g">>

-----------------------------------------------------------------------------
(* The environment: working directory, files, command lines, manifests *)

Cwd == <<"/", "w">>

README == <<"README", ".md">>
LIBDIR == <<"lib">>
SUBDIR == <<"lib", "/", "sub">>
NORMALIZE == <<"lib", "/", "normalize", ".css">>
AJS == <<"lib", "/", "a", ".js">>
MYCFG == <<"my", ".cfg">>
MISSINGCFG == <<"missing", ".cfg">>
LIBGLOB == <<"lib", "/", "**">>
GLOBSJSON == <<"globs", ".json">>

\* path.resolve: a relative path is appended to the working directory
pathResolve(filename) ==
    IF Len(filename) > 0 /\ filename[1] = "/" THEN filename
    ELSE Cwd \o <<"/">> \o filename

BaseFs ==
    (Cwd :> "dir") @@ (pathResolve(README) :> "file") @@ (pathResolve(LIBDIR) :> "dir")
    @@ (pathResolve(SUBDIR) :> "dir") @@ (pathResolve(NORMALIZE) :> "file")
    @@ (pathResolve(AJS) :> "file") @@ (pathResolve(MYCFG) :> "file")

\* the working directory with or without .editorconfig and the manifest file
\* (manifestName is Null when there is none)
FileSystem(hasEditorconfig, manifestName) ==
    BaseFs @@ [p \in (IF hasEditorconfig THEN {pathResolve(DEFAULT_EDITORCONFIG_NAME)} ELSE {})
                    \cup (IF manifestName # Null THEN {pathResolve(manifestName)} ELSE {}) |-> "file"]

\* what a positional argument or a manifest pattern can be
Items == {README, LIBDIR, NORMALIZE, LIBGLOB}
\* relative paths the glob engine can return
RelPaths == {SUBDIR, NORMALIZE, AJS}
\* every path validate() can be called on
PathUniverse == {pathResolve(it) : it \in Items} \cup RelPaths

SeqsUpTo(S, n) == UNION {[1..k -> S] : k \in 0..n}

\* "missing": there is no manifest file; "unreadable": readFile reports an
\* error (EACCES, EISDIR); "invalid": not JSON; "null": the JSON value null;
\* "object": a JSON object, with or without the "editorconfig-cli" property.
Manifests ==
    {[kind |-> k, has |-> FALSE, patterns |-> Null] :
        k \in {"missing", "unreadable", "invalid", "null", "object"}}
    \cup {[kind |-> "object", has |-> TRUE, patterns |-> ps] : ps \in SeqsUpTo({LIBGLOB, README}, MaxPatterns)}

NoManifest == [kind |-> "object", has |-> FALSE, patterns |-> Null]

\* user-supplied -x patterns
ExcludeFlags == {<<>>, << <<"README">> >>}

\* -j is of use only without arguments (line 173): it is varied there
CommandLines ==
    {[editorconfig |-> e, json |-> j, exclude |-> x, args |-> a] :
        e \in {Null, MYCFG, MISSINGCFG}, x \in ExcludeFlags,
        <<j, a>> \in ({Null, GLOBSJSON} \X {<<>>}) \cup ({Null} \X SeqsUpTo(Items, MaxArgs))}

\* the manifest file the command line names
ManifestName(cmd) == IF cmd.json # Null THEN cmd.json ELSE DEFAULT_JSON_FILENAME

-----------------------------------------------------------------------------
(* Severity types and reports of the external validator *)

TWarning == <<"w", "a", "r", "n", "i", "n", "g">>
TWarningCap == <<"W", "a", "r", "n", "i", "n", "g">>
THint == <<"h", "i", "n", "t">>
TError == <<"e", "r", "r", "o", "r">>

\* the entry types of one report, in order; <<>> is a report without entries
ReportTypeChoices ==
    {<<>>, <<TWarning>>, <<THint>>, <<TError>>, <<THint, TWarningCap>>}

\* validator.getInvalidFiles(): file -> line -> entries
Report(filePath, ts) ==
    IF ts = <<>> THEN <<>>
    ELSE [f \in {filePath} |-> [l \in {1} |-> [i \in DOMAIN ts |-> [line |-> 1, type |-> ts[i]]]]]

LowerChar(c) ==
    CASE c = "W" -> "w" [] c = "A" -> "a" [] c = "R" -> "r" [] c = "N" -> "n"
      [] c = "I" -> "i" [] c = "G" -> "g" [] c = "E" -> "e" [] c = "O" -> "o"
      [] c = "H" -> "h" [] c = "T" -> "t" [] OTHER -> c

toLowerCase(s) == [i \in DOMAIN s |-> LowerChar(s[i])]

-----------------------------------------------------------------------------
(* Helpers of the program *)

existsSync(p) == p \in DOMAIN fs

resolve(filename) ==
    IF existsSync(pathResolve(filename)) THEN pathResolve(filename) ELSE Null

\* checkEditorConfig with a log.fatal that does not end the process
checkEditorConfigNoExit(filename) ==
    [fatal |-> FALSE, value |-> IF resolve(filename) = Null THEN Null ELSE filename]

\* fatal: log.fatal ended the process; value: what the option becomes
checkEditorConfig(filename) ==
    IF resolve(filename) = Null
    THEN [fatal |-> TRUE, value |-> Null]
    ELSE [fatal |-> FALSE, value |-> filename]

\* commander's collect on the default array: the flags are pushed onto it
collect(values, memo) == memo \o values

\* RegExp.prototype.test for a literal pattern: found anywhere in the path
RegExpTest(regexp, path) ==
    \E i \in 0..(Len(path) - Len(regexp)) :
        \A j \in 1..Len(regexp) : path[i + j] = regexp[j]

\* excludes.some(...)
matches(file) == \E i \in DOMAIN excludes : RegExpTest(excludes[i], file)

\* onFile validates the file unless a pattern matches
onFileValidates(file) == ~matches(file)

\* a stat test that takes nothing for a directory
isDirectoryNever(stat) == FALSE

isDirectory(stat) == stat = "dir"

\* the entries of a report, file by file and line by line
Entries(report) ==
    {report[f][l][i] : <<f, l, i>> \in
        UNION {UNION {{<<f, l, i>> : i \in DOMAIN report[f][l]} : l \in DOMAIN report[f]} : f \in DOMAIN report}}

\* the comparison without toLowerCase
warnCaseSensitive(type) == type = WARNING

warn(type) == toLowerCase(type) = WARNING

\* a printer that sets the flag for every report, with or without entries
printReportAlways(report, code) == 1

\* the value of exitCode after printReport(report)
printReport(report, code) ==
    IF \E e \in Entries(report) : warn(e.type) THEN 1 ELSE code

\* does processInput hand the item to the glob engine
toGlob(it) == resolve(it) = Null

\* processInput validating a path once however often it is given
resolvedCountOnce(items, p) ==
    IF \E i \in DOMAIN items : resolve(items[i]) = p THEN 1 ELSE 0

\* number of validate(resolved) calls processInput makes for path p
resolvedCount(items, p) ==
    Cardinality({i \in DOMAIN items : ~toGlob(items[i]) /\ resolve(items[i]) = p})

\* number of glob(it) calls processInput makes for pattern it
globCount(items, it) ==
    Cardinality({i \in DOMAIN items : toGlob(items[i]) /\ items[i] = it})

\* what the glob engine can match: "**" at the end matches everything below
GlobMatches(it) ==
    IF Len(it) > 0 /\ it[Len(it)] = "**"
    THEN {p \in RelPaths : Len(p) >= Len(it) /\ SubSeq(p, 1, Len(it) - 1) = SubSeq(it, 1, Len(it) - 1)}
    ELSE {p \in RelPaths : p = it}

\* the test without the length check
nothingToDoAbsentOnly(m) == ~m.has

nothingToDo(m) == ~m.has \/ Len(m.patterns) = 0

\* an exit that does not wait for the lstat callbacks
eventLoopEmptyNoLstat ==
    /\ ~pendRead
    /\ \A it \in Items : pendGlob[it] = 0

eventLoopEmpty ==
    /\ ~pendRead
    /\ \A it \in Items : pendGlob[it] = 0
    /\ \A p \in PathUniverse : pendLstat[p] = 0

-----------------------------------------------------------------------------
(* Initial state *)

Init ==
    /\ argv \in CommandLines
    \* the manifest is read only when no argument is given (line 173): with
    \* arguments, one manifest stands for all
    /\ manifest \in IF argv.args = <<>> THEN Manifests ELSE {NoManifest}
    /\ \E hasEditorconfig \in BOOLEAN :
            fs = FileSystem(hasEditorconfig,
                            IF manifest.kind # "missing" THEN ManifestName(argv) ELSE Null)
    /\ pc = "parse"
    /\ program = [editorconfig |-> Null, json |-> Null, exclude |-> <<>>, args |-> <<>>]
    /\ settings = [editorconfig |-> Null, json |-> Null, exclude |-> <<>>]
    /\ excludes = <<>>
    /\ exitCode = 0
    /\ pendRead = FALSE
    /\ pendGlob = [it \in Items |-> 0]
    /\ pendLstat = [p \in PathUniverse |-> 0]
    /\ procExit = -1
    /\ term = "running"
    /\ validateCalls = [p \in PathUniverse |-> 0]
    /\ globCalls = [it \in Items |-> 0]
    /\ tested = {}
    /\ globReturned = {}
    /\ lstatDone = {}
    /\ validatorCalls = {}
    /\ printedTypes = {}
    /\ printedCount = 0
    /\ console = {}

-----------------------------------------------------------------------------
(* Actions *)

processExit(code, how) ==
    /\ pc' = "exited"
    /\ procExit' = code
    /\ term' = how

\* lines 65-72: commander parses the options; -e runs checkEditorConfig
ParseFatal ==
    /\ pc = "parse"
    /\ argv.editorconfig # Null
    /\ checkEditorConfig(argv.editorconfig).fatal
    /\ processExit(1, "fatal")
    /\ UNCHANGED <<envVars, program, settings, excludes, exitCode, pendRead,
                   pendGlob, pendLstat, obsVars>>

ParseOptions ==
    /\ pc = "parse"
    /\ argv.editorconfig # Null => ~checkEditorConfig(argv.editorconfig).fatal
    /\ program' = [editorconfig |-> IF argv.editorconfig = Null THEN Null
                                    ELSE checkEditorConfig(argv.editorconfig).value,
                   json |-> argv.json,
                   exclude |-> collect(argv.exclude, DEFAULT_EXCLUDE),
                   args |-> argv.args]
    /\ pc' = "settings"
    /\ UNCHANGED <<envVars, settings, excludes, exitCode, pendRead, pendGlob,
                   pendLstat, procExit, term, obsVars>>

\* lines 74-79: the default .editorconfig is checked when no flag was given
SettingsFatal ==
    /\ pc = "settings"
    /\ program.editorconfig = Null
    /\ checkEditorConfig(DEFAULT_EDITORCONFIG_NAME).fatal
    /\ processExit(1, "fatal")
    /\ UNCHANGED <<envVars, program, settings, excludes, exitCode, pendRead,
                   pendGlob, pendLstat, obsVars>>

\* lines 74-88 and 129-131: settings, exit flag, compiled exclusions
BuildSettings ==
    /\ pc = "settings"
    /\ program.editorconfig = Null => ~checkEditorConfig(DEFAULT_EDITORCONFIG_NAME).fatal
    /\ settings' = [editorconfig |-> IF program.editorconfig # Null THEN program.editorconfig
                                     ELSE checkEditorConfig(DEFAULT_EDITORCONFIG_NAME).value,
                    json |-> IF program.json # Null THEN program.json ELSE DEFAULT_JSON_FILENAME,
                    exclude |-> program.exclude]
    /\ excludes' = program.exclude
    /\ exitCode' = 0
    /\ pc' = "main"
    /\ UNCHANGED <<envVars, program, pendRead, pendGlob, pendLstat, procExit,
                   term, obsVars>>

\* lines 152-170, the whole loop
processInput(items) ==
    /\ pendLstat' = [p \in PathUniverse |-> pendLstat[p] + resolvedCount(items, p)]
    /\ validateCalls' = [p \in PathUniverse |-> validateCalls[p] + resolvedCount(items, p)]
    /\ pendGlob' = [it \in Items |-> pendGlob[it] + globCount(items, it)]
    /\ globCalls' = [it \in Items |-> globCalls[it] + globCount(items, it)]

\* lines 172, 194-196: positional arguments were given
DispatchArgs ==
    /\ pc = "main"
    /\ Len(program.args) # 0
    /\ processInput(program.args)
    /\ pc' = "loop"
    /\ UNCHANGED <<envVars, program, settings, excludes, exitCode, pendRead,
                   procExit, term, tested, globReturned, lstatDone,
                   validatorCalls, printedTypes, printedCount, console>>

\* lines 173-175: no arguments, the manifest is read
DispatchManifest ==
    /\ pc = "main"
    /\ Len(program.args) = 0
    /\ resolve(settings.json) # Null
    /\ pendRead' = TRUE
    /\ pc' = "loop"
    /\ UNCHANGED <<envVars, program, settings, excludes, exitCode, pendGlob,
                   pendLstat, procExit, term, obsVars>>

\* lines 174-175: readFile(null, ...) throws ERR_INVALID_ARG_TYPE synchronously,
\* outside the try block of the callback
DispatchManifestMissing ==
    /\ pc = "main"
    /\ Len(program.args) = 0
    /\ resolve(settings.json) = Null
    /\ processExit(1, "uncaught")
    /\ UNCHANGED <<envVars, program, settings, excludes, exitCode, pendRead,
                   pendGlob, pendLstat, obsVars>>

\* lines 175-193, err or JSON.parse throwing: caught and logged
ReadFileFailed ==
    /\ pc = "loop"
    /\ pendRead
    /\ manifest.kind \in {"unreadable", "invalid", "null"}
    /\ pendRead' = FALSE
    /\ console' = console \cup {"jsonError"}
    /\ UNCHANGED <<envVars, pc, program, settings, excludes, exitCode, pendGlob,
                   pendLstat, procExit, term, validateCalls, globCalls, tested,
                   globReturned, lstatDone, validatorCalls, printedTypes,
                   printedCount>>

\* lines 183-185: program.help() prints the usage and exits with status 0
ReadFileNothingToDo ==
    /\ pc = "loop"
    /\ pendRead
    /\ manifest.kind = "object"
    /\ nothingToDo(manifest)
    /\ pendRead' = FALSE
    /\ console' = console \cup {"nothing", "help"}
    /\ processExit(0, "help")
    /\ UNCHANGED <<envVars, program, settings, excludes, exitCode, pendGlob,
                   pendLstat, validateCalls, globCalls, tested, globReturned,
                   lstatDone, validatorCalls, printedTypes, printedCount>>

\* lines 186-189
ReadFilePatterns ==
    /\ pc = "loop"
    /\ pendRead
    /\ manifest.kind = "object"
    /\ ~nothingToDo(manifest)
    /\ pendRead' = FALSE
    /\ console' = console \cup {"loaded"}
    /\ processInput(manifest.patterns)
    /\ UNCHANGED <<envVars, pc, program, settings, excludes, exitCode, procExit,
                   term, tested, globReturned, lstatDone, validatorCalls,
                   printedTypes, printedCount>>

\* lines 160-163 and 133-150: the glob promise resolves, onFile runs on each file
GlobResolved(it) ==
    /\ pc = "loop"
    /\ pendGlob[it] > 0
    /\ \E files \in SUBSET GlobMatches(it) :
        /\ globReturned' = globReturned \cup files
        /\ tested' = tested \cup files
        /\ pendLstat' = [p \in PathUniverse |->
                IF p \in files /\ onFileValidates(p) THEN pendLstat[p] + 1 ELSE pendLstat[p]]
        /\ validateCalls' = [p \in PathUniverse |->
                IF p \in files /\ onFileValidates(p) THEN validateCalls[p] + 1 ELSE validateCalls[p]]
    /\ pendGlob' = [pendGlob EXCEPT ![it] = @ - 1]
    /\ UNCHANGED <<envVars, pc, program, settings, excludes, exitCode, pendRead,
                   procExit, term, globCalls, lstatDone, validatorCalls,
                   printedTypes, printedCount, console>>

\* lines 164-166: the glob promise rejects, the handler rethrows
GlobRejected(it) ==
    /\ pc = "loop"
    /\ pendGlob[it] > 0
    /\ processExit(1, "uncaught")
    /\ UNCHANGED <<envVars, program, settings, excludes, exitCode, pendRead,
                   pendGlob, pendLstat, obsVars>>

\* lines 115-118: lstat failed, the callback throws
LstatFailed(p) ==
    /\ pc = "loop"
    /\ pendLstat[p] > 0
    /\ processExit(1, "uncaught")
    /\ UNCHANGED <<envVars, program, settings, excludes, exitCode, pendRead,
                   pendGlob, pendLstat, obsVars>>

\* lines 115-126 with a directory: nothing happens
LstatDirectory(p) ==
    /\ pc = "loop"
    /\ pendLstat[p] > 0
    /\ isDirectory(fs[pathResolve(p)])
    /\ pendLstat' = [pendLstat EXCEPT ![p] = @ - 1]
    /\ lstatDone' = lstatDone \cup {p}
    /\ UNCHANGED <<envVars, pc, program, settings, excludes, exitCode, pendRead,
                   pendGlob, procExit, term, validateCalls, globCalls, tested,
                   globReturned, validatorCalls, printedTypes, printedCount,
                   console>>

\* lines 120-125 and 90-110: the validator runs and its report is printed
LstatValidate(p) ==
    /\ pc = "loop"
    /\ pendLstat[p] > 0
    /\ ~isDirectory(fs[pathResolve(p)])
    /\ pendLstat' = [pendLstat EXCEPT ![p] = @ - 1]
    /\ lstatDone' = lstatDone \cup {p}
    /\ validatorCalls' = validatorCalls \cup {p}
    /\ \E ts \in ReportTypeChoices :
        /\ exitCode' = printReport(Report(p, ts), exitCode)
        /\ printedTypes' = printedTypes \cup {e.type : e \in Entries(Report(p, ts))}
        /\ printedCount' = printedCount + Len(ts)
    /\ UNCHANGED <<envVars, pc, program, settings, excludes, pendRead, pendGlob,
                   procExit, term, validateCalls, globCalls, tested,
                   globReturned, console>>

\* lines 86-88: the event loop is empty, the listener exits with the flag
BeforeExit ==
    /\ pc = "loop"
    /\ eventLoopEmpty
    /\ processExit(exitCode, "natural")
    /\ UNCHANGED <<envVars, program, settings, excludes, exitCode, pendRead,
                   pendGlob, pendLstat, obsVars>>

Next ==
    \/ ParseFatal
    \/ ParseOptions
    \/ SettingsFatal
    \/ BuildSettings
    \/ DispatchArgs
    \/ DispatchManifest
    \/ DispatchManifestMissing
    \/ ReadFileFailed
    \/ ReadFileNothingToDo
    \/ ReadFilePatterns
    \/ \E it \in Items : GlobResolved(it)
    \/ \E it \in Items : GlobRejected(it)
    \/ \E p \in PathUniverse : LstatFailed(p)
    \/ \E p \in PathUniverse : LstatDirectory(p)
    \/ \E p \in PathUniverse : LstatValidate(p)
    \/ BeforeExit

Spec == Init /\ [][Next]_vars

\* the event loop runs every callback that is due and then fires beforeExit
FairSpec == Spec /\ WF_vars(Next)

-----------------------------------------------------------------------------
(* Properties *)

\* a configured exclusion pattern matches the path
Excluded(p) == \E i \in DOMAIN settings.exclude : RegExpTest(settings.exclude[i], p)

IsDir(p) == fs[pathResolve(p)] = "dir"

NaturalExit == pc = "exited" /\ term = "natural"

\* no expansion, exclusion test, lstat or validator invocation has happened
NothingAttempted ==
    /\ \A p \in PathUniverse : validateCalls[p] = 0
    /\ \A it \in Items : globCalls[it] = 0
    /\ tested = {}
    /\ lstatDone = {}
    /\ validatorCalls = {}
    /\ ~pendRead

\* C1: a path that an exclusion pattern matches is never passed to validate,
\* wherever the path comes from (literal argument, manifest pattern, glob result).
C1_ExcludedNeverValidated ==
    \A p \in PathUniverse : Excluded(p) => validateCalls[p] = 0

WarningSpellings == {TWarning, TWarningCap}
ErrorSpellings == {TError}

C3_DefaultAbsenceNonFatal ==
    (/\ argv.editorconfig = Null
     /\ ~existsSync(pathResolve(DEFAULT_EDITORCONFIG_NAME))
     /\ pc \notin {"parse", "settings"})
        => (term # "fatal" /\ settings.editorconfig = Null)

\* C4: with no arguments and a manifest that is missing, unreadable or not JSON,
\* the error is logged, nothing is validated, and the process ends through the
\* normal exit path with the exit flag at success.
C4_BadManifestNoCrash ==
    (/\ argv.args = <<>>
     /\ manifest.kind \in {"missing", "unreadable", "invalid"}
     /\ pc = "exited"
     /\ term # "fatal")
        => (/\ term = "natural"
            /\ procExit = 0
            /\ "jsonError" \in console
            /\ validatorCalls = {}
            /\ \A p \in PathUniverse : validateCalls[p] = 0)

\* C5: --editorconfig naming a file that does not exist ends the process with
\* exit code 1 during option parsing, and no expansion, exclusion test, lstat or
\* validator invocation ever happens.
C5_MissingEditorconfigFatal ==
    (/\ argv.editorconfig # Null
     /\ ~existsSync(pathResolve(argv.editorconfig))
     /\ pc # "parse")
        => (pc = "exited" /\ term = "fatal" /\ procExit = 1 /\ NothingAttempted)

C5_Witness ==
    /\ argv.editorconfig = MISSINGCFG
    /\ argv.args # <<>>
    /\ pc = "exited"

\* C6: the validator is never invoked on a directory that reaches validate, no
\* report is printed for it, and the step that handles it leaves the exit flag
\* as it was.
C6_DirectoriesSkipped ==
    /\ [](\A p \in validatorCalls : ~IsDir(p))
    /\ [][\A p \in PathUniverse :
            (pendLstat'[p] < pendLstat[p] /\ IsDir(p))
                => (/\ exitCode' = exitCode
                    /\ validatorCalls' = validatorCalls
                    /\ printedCount' = printedCount
                    /\ printedTypes' = printedTypes)]_vars

C6_Witness ==
    /\ SUBDIR \in lstatDone
    /\ pathResolve(LIBDIR) \in lstatDone
    /\ IsDir(SUBDIR)

\* C7: the exit flag starts at success and changes only in a step that prints an
\* entry; when no entry was printed and no fatal error occurred, the exit code is 0.
C7_CleanRunExitsZero ==
    /\ [](pc = "parse" => exitCode = 0)
    /\ []((pc = "exited" /\ term \in {"natural", "help"} /\ printedCount = 0) => procExit = 0)
    /\ [][exitCode' # exitCode => printedCount' > printedCount]_vars

C7_Witness ==
    /\ NaturalExit
    /\ printedCount = 0
    /\ Cardinality(validatorCalls) >= 2
    /\ procExit = 0

C8_Pre ==
    /\ argv.args = <<>>
    /\ manifest.kind = "object"
    /\ (~manifest.has \/ manifest.patterns = <<>>)

C9_Pre ==
    /\ argv.args = <<>>
    /\ manifest.kind = "object"
    /\ manifest.has
    /\ manifest.patterns # <<>>

\* C9: with the patterns of the manifest, every pattern that does not resolve is
\* handed to the glob engine; every path it returns that no pattern excludes and
\* that is no directory is validated before the process exits, unless an
\* uncaught error ends it; the exit code is taken when nothing is outstanding.
\* (The process always ends, by beforeExit or by an uncaught error, and when it
\* ends by beforeExit every such path has been validated.)
C9_ManifestGlobsValidated ==
    /\ []((C9_Pre /\ "loaded" \in console) =>
            \A i \in DOMAIN manifest.patterns :
                resolve(manifest.patterns[i]) = Null =>
                    globCalls[manifest.patterns[i]] =
                        Cardinality({j \in DOMAIN manifest.patterns :
                                        manifest.patterns[j] = manifest.patterns[i]}))
    /\ [](NaturalExit => (/\ ~pendRead
                           /\ \A it \in Items : pendGlob[it] = 0
                           /\ \A p \in PathUniverse : pendLstat[p] = 0))
    /\ []((C9_Pre /\ NaturalExit) =>
            \A f \in globReturned : (~Excluded(f) /\ ~IsDir(f)) => f \in validatorCalls)
    /\ (C9_Pre /\ pc = "loop") ~> (pc = "exited" /\ term \in {"natural", "uncaught"})

C9_Witness ==
    /\ C9_Pre
    /\ NaturalExit
    /\ AJS \in validatorCalls
    /\ NORMALIZE \in globReturned
    /\ SUBDIR \in globReturned

\* processInput has run on the positional arguments
C10_Started ==
    /\ argv.args # <<>>
    /\ pc = "loop" \/ (pc = "exited" /\ term \in {"natural", "uncaught"})

\* C10: for a positional argument that resolves to an existing path, the glob
\* engine is never invoked and validate is called on the resolved path once per
\* occurrence of the argument.
C10_LiteralValidatedOnce ==
    \A i \in DOMAIN argv.args :
        resolve(argv.args[i]) # Null =>
            /\ globCalls[argv.args[i]] = 0
            /\ validateCalls[resolve(argv.args[i])] =
                 IF C10_Started
                 THEN Cardinality({j \in DOMAIN argv.args : argv.args[j] = argv.args[i]})
                 ELSE 0

C10_Witness ==
    /\ C10_Started
    /\ argv.args = <<README, README>>
    /\ validateCalls[pathResolve(README)] = 2

====
